---- MODULE Spec2Model ----
EXTENDS Integers, Sequences, FiniteSets, TLC

(***************************************************************************)
(* Circulation coordinator of the lending library: checkout_book,          *)
(* renew_loan, return_loan, loan_invalidate, expire_loans, send_reminders, *)
(* process_waitlist and join_waitlist over the loans / waitlist_entries    *)
(* tables, with the mail senders they call, the scheduler that runs the    *)
(* batch jobs and records their telemetry, and the /health endpoint.       *)
(***************************************************************************)

\* ---------------------------------------------------------------- bounds
MaxTime == 2
MaxLoanRows == 2
MaxLoansCap == 2
LoanDays == 1
MaxMail == 2
MaxWaitlist == 3
MaxFailures == 4

\* app.config["MAX_RENEWALS"]
MAX_RENEWALS == 2

\* app.config["REMINDER_DAYS_BEFORE_DUE"], in units of the clock
REMINDER_DAYS_BEFORE_DUE == 2

\* app.config["SCHEDULER_MAX_CONSECUTIVE_FAILURES"]
SCHEDULER_MAX_CONSECUTIVE_FAILURES == 3

\* A nullable DateTime column holds NULL or a clock value; the clock starts at 1.
NULL == 0

Users == {"u1", "u2", "u3"}
Books == {"b1", "b2"}
Threads == {"t1", "t2", "t3"}

\* Server instances (processes) sharing one database file; each has its own
\* _checkout_lock.
Instances == {"i1", "i2"}

NoThread == "none"

VARIABLES
    instance_of,    \* deployment: the instance each worker thread belongs to
    now,            \* _utcnow()
    users,          \* users table (read only here)
    books,          \* books table (read only here)
    max_loans,      \* app.config["MAX_LOANS_PER_PATRON"]
    loans,          \* committed loans table: id -> row
    waitlist,       \* committed waitlist_entries, in created_at order
    checkout_lock,  \* per instance: the thread inside `with _checkout_lock`
    db_lock,        \* the thread holding SQLite's write lock (BEGIN IMMEDIATE)
    pc,             \* per thread: position inside checkout_book
    req,            \* per thread: the (user, book) arguments
    my_loan,        \* per thread: id of the Loan row this attempt inserted
    result,         \* per thread: what checkout_book returned / raised
    sweep,          \* expire_loans: running flag, `overdue` still to process, `now`
    outbox,         \* per (user, book): availability messages the provider accepted
    flashed,        \* the warning flashed by the latest return / renew request
    scheduler_state, \* app.scheduler_state["jobs"]: per job id, the telemetry entry
    health_response \* what the latest GET /health returned

vars == <<instance_of, now, users, books, max_loans, loans, waitlist, checkout_lock, db_lock,
          pc, req, my_loan, result, sweep, outbox, flashed, scheduler_state,
          health_response>>

\* ------------------------------------------------------------ data model

UserRow(active, blocked, role) ==
    [is_active_account |-> active, is_blocked |-> blocked, role |-> role]

Patron == UserRow(TRUE, FALSE, "patron")

\* User.can_borrow
can_borrow(usr, u) ==
    /\ usr[u].is_active_account
    /\ ~usr[u].is_blocked
    /\ usr[u].role = "patron"

BookRow(owned, visible, disabled, restricted, master) ==
    [owned_copies |-> owned, is_visible |-> visible, is_disabled |-> disabled,
     restricted_access |-> restricted, has_master |-> master,
     loan_days |-> LoanDays]

LendableBook(owned) == BookRow(owned, TRUE, FALSE, FALSE, TRUE)

\* Book.active_loan_count
active_loan_count(lns, b) ==
    Cardinality({l \in DOMAIN lns : lns[l].book = b /\ lns[l].is_active})

Max2(a, b) == IF a >= b THEN a ELSE b
Min2(a, b) == IF a <= b THEN a ELSE b

\* Book.available_copies
available_copies(bks, lns, b) ==
    Max2(0, bks[b].owned_copies - active_loan_count(lns, b))

\* Book.is_available
is_available(bks, lns, b) ==
    /\ bks[b].is_visible
    /\ ~bks[b].is_disabled
    /\ available_copies(bks, lns, b) > 0
    /\ bks[b].has_master

\* Loan(...) as constructed by checkout_book, with the column defaults.
NewLoan(u, b, due) ==
    [user |-> u, book |-> b, due_at |-> due, returned_at |-> NULL,
     is_active |-> TRUE, invalidated |-> FALSE,
     renewal_count |-> 0, max_renewals |-> MAX_RENEWALS,
     reminder_sent |-> FALSE, expiration_notice_sent |-> FALSE,
     circulation_filename |-> FALSE]

\* SQLite rowid of the next inserted loan: max(id) + 1.
NextLoanId(lns) ==
    IF DOMAIN lns = {} THEN 1
    ELSE (CHOOSE m \in DOMAIN lns : \A l \in DOMAIN lns : l <= m) + 1

InsertRow(lns, id, row) ==
    [l \in DOMAIN lns \cup {id} |-> IF l = id THEN row ELSE lns[l]]

DeleteRow(lns, id) ==
    [l \in DOMAIN lns \ {id} |-> lns[l]]

\* ------------------------------------------------------ process_waitlist

\* A set of row ids in ascending order.
RECURSIVE SeqOfSet(_)
SeqOfSet(S) ==
    IF S = {} THEN <<>>
    ELSE LET m == CHOOSE x \in S : \A y \in S : x <= y
         IN <<m>> \o SeqOfSet(S \ {m})

\* Entries the loop's query can return: this book, not fulfilled, not notified.
PendingIdx(wl, b) ==
    {i \in 1..Len(wl) :
        wl[i].book = b /\ ~wl[i].is_fulfilled /\ wl[i].notified_at = NULL}

\* Mutant: the budget is the number of owned copies, whatever is lent out.
max_notifications_owned(bks, lns, b) == Max2(0, bks[b].owned_copies)

\* Number of sends one process_waitlist(book) call can attempt.
max_notifications(bks, lns, b) ==
    IF available_copies(bks, lns, b) <= 0 THEN 0
    ELSE Min2(available_copies(bks, lns, b), Max2(0, bks[b].owned_copies))

WaitlistAttempts(bks, lns, wl, b) ==
    Min2(max_notifications(bks, lns, b), Cardinality(PendingIdx(wl, b)))

\* The loop with k confirmed deliveries: the k oldest pending entries get
\* notified_at; when k is below the number of attempts the (k+1)-th send
\* returned false or raised and the loop broke.
process_waitlist(wl, b, k, t) ==
    [i \in 1..Len(wl) |->
        IF /\ i \in PendingIdx(wl, b)
           /\ Cardinality({j \in PendingIdx(wl, b) : j <= i}) <= k
        THEN [wl[i] EXCEPT !.notified_at = t]
        ELSE wl[i]]

\* email_service.send_waitlist_notification(user, book): renders the message,
\* hands it to _send_email (which logs and swallows every delivery error) and
\* falls off the end of the function: the caller gets None.
send_waitlist_notification(u, b) == "None"

\* email_service.send_expiration_email(loan, user, book): likewise None.
send_expiration_email(l) == "None"

\* Mutant: every value but False counts as a confirmation.
Truthy_NotFalse(v) == v # "False"

\* `if sent:` / `if not sent:` on the value a sender returned.
Truthy(v) == v = "True"

\* The pending entries of the book, oldest first (order_by created_at).
PendingSeq(wl, b) == SeqOfSet(PendingIdx(wl, b))

\* notifications_sent when the loop ends: entries are taken oldest first while
\* the budget lasts and the send is truthy; a falsy send (or a caught
\* RuntimeError / OSError / ValueError) breaks the loop.
RECURSIVE Deliveries(_, _, _, _)
Deliveries(wl, b, pend, n) ==
    IF n = 0 \/ pend = <<>> THEN 0
    ELSE IF Truthy(send_waitlist_notification(wl[Head(pend)].user, b))
         THEN 1 + Deliveries(wl, b, Tail(pend), n - 1)
         ELSE 0

notifications_sent(bks, lns, wl, b) ==
    Deliveries(wl, b, PendingSeq(wl, b), max_notifications(bks, lns, b))

\* Mutant: a failed send does not end the loop, the next entry is tried.
SendCalls_NoBreak(bks, lns, wl, b) == WaitlistAttempts(bks, lns, wl, b)

\* Number of calls of send_waitlist_notification in one process_waitlist(book):
\* one per delivery, plus the call that broke the loop.
SendCalls(bks, lns, wl, b) ==
    IF notifications_sent(bks, lns, wl, b) < WaitlistAttempts(bks, lns, wl, b)
    THEN notifications_sent(bks, lns, wl, b) + 1
    ELSE notifications_sent(bks, lns, wl, b)

\* The patrons those calls were made for.
Mailed(bks, lns, wl, b) ==
    {wl[PendingSeq(wl, b)[j]].user : j \in 1..SendCalls(bks, lns, wl, b)}

\* _send_email for each of those calls: the message is posted to the mail
\* provider; `ok` says whether the provider accepted the request.  A refusal
\* is logged and swallowed.
Post(ob, ok, bks, lns, wl, b) ==
    [p \in DOMAIN ob |->
        IF ok /\ p[2] = b /\ p[1] \in Mailed(bks, lns, wl, b)
        THEN ob[p] + 1 ELSE ob[p]]

\* No flash message of category "warning".
NoFlash == [op |-> "none", loan |-> NULL, error |-> "none"]

\* --------------------------------------------------------- checkout_book

\* Mutant: the availability test and the count test are both off by one.
CheckoutError_OffByOne(usr, bks, lns, cap, u, b) ==
    IF ~(bks[b].is_visible /\ ~bks[b].is_disabled /\ bks[b].has_master
         /\ bks[b].owned_copies - active_loan_count(lns, b) >= 0)
    THEN "not_available"
    ELSE IF bks[b].restricted_access THEN "restricted"
    ELSE IF ~can_borrow(usr, u) THEN "ineligible"
    ELSE IF Cardinality({l \in DOMAIN lns : lns[l].user = u /\ lns[l].is_active}) >= cap
         THEN "cap"
    ELSE IF \E l \in DOMAIN lns :
                lns[l].user = u /\ lns[l].book = b /\ lns[l].is_active
         THEN "duplicate"
    ELSE IF active_loan_count(lns, b) > bks[b].owned_copies THEN "no_copies"
    ELSE "ok"

\* Mutant: availability is not re-read under the lock and the copies are not
\* counted.
CheckoutError_NoCopyCheck(usr, bks, lns, cap, u, b) ==
    IF ~(bks[b].is_visible /\ ~bks[b].is_disabled /\ bks[b].has_master)
    THEN "not_available"
    ELSE IF bks[b].restricted_access THEN "restricted"
    ELSE IF ~can_borrow(usr, u) THEN "ineligible"
    ELSE IF Cardinality({l \in DOMAIN lns : lns[l].user = u /\ lns[l].is_active}) >= cap
         THEN "cap"
    ELSE IF \E l \in DOMAIN lns :
                lns[l].user = u /\ lns[l].book = b /\ lns[l].is_active
         THEN "duplicate"
    ELSE "ok"

\* Mutant: the patron's loan limit is not checked.
CheckoutError_NoCapCheck(usr, bks, lns, cap, u, b) ==
    IF ~is_available(bks, lns, b) THEN "not_available"
    ELSE IF bks[b].restricted_access THEN "restricted"
    ELSE IF ~can_borrow(usr, u) THEN "ineligible"
    ELSE IF \E l \in DOMAIN lns :
                lns[l].user = u /\ lns[l].book = b /\ lns[l].is_active
         THEN "duplicate"
    ELSE IF active_loan_count(lns, b) >= bks[b].owned_copies THEN "no_copies"
    ELSE "ok"

\* Mutant: the patron's existing loan of the book is not looked up.
CheckoutError_NoDuplicateCheck(usr, bks, lns, cap, u, b) ==
    IF ~is_available(bks, lns, b) THEN "not_available"
    ELSE IF bks[b].restricted_access THEN "restricted"
    ELSE IF ~can_borrow(usr, u) THEN "ineligible"
    ELSE IF Cardinality({l \in DOMAIN lns : lns[l].user = u /\ lns[l].is_active}) >= cap
         THEN "cap"
    ELSE IF active_loan_count(lns, b) >= bks[b].owned_copies THEN "no_copies"
    ELSE "ok"

\* The precondition checks of checkout_book, in the order the code makes them.
CheckoutError(usr, bks, lns, cap, u, b) ==
    IF ~is_available(bks, lns, b) THEN "not_available"
    ELSE IF bks[b].restricted_access THEN "restricted"
    ELSE IF ~can_borrow(usr, u) THEN "ineligible"
    ELSE IF Cardinality({l \in DOMAIN lns : lns[l].user = u /\ lns[l].is_active}) >= cap
         THEN "cap"
    ELSE IF \E l \in DOMAIN lns :
                lns[l].user = u /\ lns[l].book = b /\ lns[l].is_active
         THEN "duplicate"
    ELSE IF active_loan_count(lns, b) >= bks[b].owned_copies THEN "no_copies"
    ELSE "ok"

ReleaseLock(lock, t) ==
    [lock EXCEPT ![instance_of[t]] = NoThread]

\* `with _checkout_lock:` -- blocks until the instance's mutex is free.  The
\* arguments (user, book) are first read after BEGIN IMMEDIATE, so they are
\* drawn in the validation step.
checkout_book_enter(t) ==
    /\ pc[t] = "idle"
    /\ checkout_lock[instance_of[t]] = NoThread
    /\ checkout_lock' = [checkout_lock EXCEPT ![instance_of[t]] = t]
    /\ pc' = [pc EXCEPT ![t] = "begin"]
    /\ UNCHANGED <<scheduler_state, health_response, outbox, flashed, instance_of, now,
                   users, books, max_loans, loans, waitlist, db_lock, req, my_loan, result,
                   sweep>>

\* _begin_checkout_transaction: BEGIN IMMEDIATE granted.
begin_checkout_transaction(t) ==
    /\ pc[t] = "begin"
    /\ db_lock = NoThread
    /\ db_lock' = t
    /\ pc' = [pc EXCEPT ![t] = "validate"]
    /\ UNCHANGED <<scheduler_state, health_response, outbox, flashed, instance_of, now,
                   users, books, max_loans, loans, waitlist, checkout_lock, req, my_loan,
                   result, sweep>>

\* Mutant: the busy error leaves the instance's mutex held.
begin_checkout_busy_keeps_mutex(t) ==
    /\ pc[t] = "begin"
    /\ db_lock # NoThread
    /\ result' = [result EXCEPT ![t] = "busy"]
    /\ pc' = [pc EXCEPT ![t] = "done"]
    /\ UNCHANGED <<scheduler_state, health_response, outbox, flashed, instance_of, now,
                   users, books, max_loans, loans, waitlist, checkout_lock, db_lock, req,
                   my_loan, sweep>>

\* _begin_checkout_transaction: "database is locked" -> ValueError; the
\* `except ValueError` handler rolls back and the `with` block releases the mutex.
begin_checkout_busy(t) ==
    /\ pc[t] = "begin"
    /\ db_lock # NoThread
    /\ result' = [result EXCEPT ![t] = "busy"]
    /\ checkout_lock' = ReleaseLock(checkout_lock, t)
    /\ pc' = [pc EXCEPT ![t] = "done"]
    /\ UNCHANGED <<scheduler_state, health_response, outbox, flashed, instance_of, now,
                   users, books, max_loans, loans, waitlist, db_lock, req, my_loan, sweep>>

\* Mutant: the Loan row is added before the preconditions are checked and the
\* rejection does not roll it back.
checkout_book_reject_keeps_row(t, u, b) ==
    /\ pc[t] = "validate"
    /\ CheckoutError(users, books, loans, max_loans, u, b) # "ok"
    /\ loans' = InsertRow(loans, NextLoanId(loans),
                          NewLoan(u, b, now + books[b].loan_days))
    /\ result' = [result EXCEPT ![t] = CheckoutError(users, books, loans, max_loans, u, b)]
    /\ db_lock' = NoThread
    /\ checkout_lock' = ReleaseLock(checkout_lock, t)
    /\ pc' = [pc EXCEPT ![t] = "done"]
    /\ UNCHANGED <<scheduler_state, health_response, outbox, flashed, instance_of, now,
                   users, books, max_loans, waitlist, req, my_loan, sweep>>

\* checkout_book(user, book) is called with u, b and a precondition fails:
\* ValueError, db.session.rollback(), mutex released.
checkout_book_reject(t, u, b) ==
    /\ pc[t] = "validate"
    /\ CheckoutError(users, books, loans, max_loans, u, b) # "ok"
    /\ result' = [result EXCEPT ![t] = CheckoutError(users, books, loans, max_loans, u, b)]
    /\ db_lock' = NoThread
    /\ checkout_lock' = ReleaseLock(checkout_lock, t)
    /\ pc' = [pc EXCEPT ![t] = "done"]
    /\ UNCHANGED <<scheduler_state, health_response, outbox, flashed, instance_of, now,
                   users, books, max_loans, loans, waitlist, req, my_loan, sweep>>

\* checkout_book(user, book) is called with u, b and all preconditions hold:
\* the Loan row is added and committed (line 78), which ends the
\* BEGIN IMMEDIATE transaction.
checkout_book_insert(t, u, b) ==
    /\ pc[t] = "validate"
    /\ CheckoutError(users, books, loans, max_loans, u, b) = "ok"
    /\ NextLoanId(loans) <= MaxLoanRows
    /\ loans' = InsertRow(loans, NextLoanId(loans),
                          NewLoan(u, b, now + books[b].loan_days))
    /\ req' = [req EXCEPT ![t] = <<u, b>>]
    /\ my_loan' = [my_loan EXCEPT ![t] = NextLoanId(loans)]
    /\ db_lock' = NoThread
    /\ pc' = [pc EXCEPT ![t] = "generate"]
    /\ UNCHANGED <<scheduler_state, health_response, outbox, flashed, instance_of, now,
                   users, books, max_loans, waitlist, checkout_lock, result, sweep>>

\* generate_circulation_copy returned a filename; it is stored and committed.
checkout_book_generated(t) ==
    /\ pc[t] = "generate"
    /\ db_lock = NoThread
    /\ loans' = IF my_loan[t] \in DOMAIN loans
                THEN [loans EXCEPT ![my_loan[t]].circulation_filename = TRUE]
                ELSE loans
    /\ pc' = [pc EXCEPT ![t] = "fulfil"]
    /\ UNCHANGED <<scheduler_state, health_response, outbox, flashed, instance_of, now,
                   users, books, max_loans, waitlist, checkout_lock, db_lock, req, my_loan,
                   result, sweep>>

\* Mutant: on a generation failure the loan is marked inactive, not deleted.
checkout_book_generate_failed_marks_inactive(t) ==
    /\ pc[t] = "generate"
    /\ db_lock = NoThread
    /\ loans' = [loans EXCEPT ![my_loan[t]].is_active = FALSE,
                              ![my_loan[t]].returned_at = now]
    /\ result' = [result EXCEPT ![t] = "artifact_unavailable"]
    /\ checkout_lock' = ReleaseLock(checkout_lock, t)
    /\ pc' = [pc EXCEPT ![t] = "done"]
    /\ req' = [req EXCEPT ![t] = <<>>]
    /\ my_loan' = [my_loan EXCEPT ![t] = NULL]
    /\ UNCHANGED <<scheduler_state, health_response, outbox, flashed, instance_of, now,
                   users, books, max_loans, waitlist, db_lock, sweep>>

\* generate_circulation_copy raised: the loan row is deleted and committed,
\* ValueError is raised, the mutex is released.
checkout_book_generate_failed(t) ==
    /\ pc[t] = "generate"
    /\ db_lock = NoThread
    /\ loans' = DeleteRow(loans, my_loan[t])
    /\ result' = [result EXCEPT ![t] = "artifact_unavailable"]
    /\ checkout_lock' = ReleaseLock(checkout_lock, t)
    /\ pc' = [pc EXCEPT ![t] = "done"]
    /\ req' = [req EXCEPT ![t] = <<>>]
    /\ my_loan' = [my_loan EXCEPT ![t] = NULL]
    /\ UNCHANGED <<scheduler_state, health_response, outbox, flashed, instance_of, now,
                   users, books, max_loans, waitlist, db_lock, sweep>>

\* The patron's unfulfilled waitlist entry for the book is marked fulfilled;
\* the Loan is returned and the mutex released.
MarkFulfilled(wl, u, b) ==
    [i \in 1..Len(wl) |->
        IF /\ wl[i].user = u /\ wl[i].book = b /\ ~wl[i].is_fulfilled
           /\ \A j \in 1..(i - 1) :
                ~(wl[j].user = u /\ wl[j].book = b /\ ~wl[j].is_fulfilled)
        THEN [wl[i] EXCEPT !.is_fulfilled = TRUE]
        ELSE wl[i]]

checkout_book_finish(t) ==
    /\ pc[t] = "fulfil"
    /\ db_lock = NoThread
    /\ waitlist' = MarkFulfilled(waitlist, req[t][1], req[t][2])
    /\ result' = [result EXCEPT ![t] = "ok"]
    /\ checkout_lock' = ReleaseLock(checkout_lock, t)
    /\ pc' = [pc EXCEPT ![t] = "done"]
    /\ req' = [req EXCEPT ![t] = <<>>]
    /\ my_loan' = [my_loan EXCEPT ![t] = NULL]
    /\ UNCHANGED <<scheduler_state, health_response, outbox, flashed, instance_of, now,
                   users, books, max_loans, loans, db_lock, sweep>>

\* The borrow route has consumed the outcome; the worker thread is free again.
borrow_done(t) ==
    /\ pc[t] = "done"
    /\ pc' = [pc EXCEPT ![t] = "idle"]
    /\ result' = [result EXCEPT ![t] = "none"]
    /\ UNCHANGED <<scheduler_state, health_response, outbox, flashed, instance_of, now,
                   users, books, max_loans, loans, waitlist, checkout_lock, db_lock, req,
                   my_loan, sweep>>

\* ------------------------------------------------- return / invalidate

\* Mutant: a return of a loan that is not active runs the waitlist step again.
return_loan_reject_refulfils(l) ==
    /\ l \in DOMAIN loans
    /\ ~loans[l].is_active
    /\ outbox' = Post(outbox, TRUE, books, loans, waitlist, loans[l].book)
    /\ \A p \in DOMAIN outbox : outbox'[p] <= MaxMail
    /\ flashed' = [op |-> "return", loan |-> l, error |-> "not_active"]
    /\ UNCHANGED <<scheduler_state, health_response, instance_of, now, users, books,
                   max_loans, loans, waitlist, checkout_lock, db_lock, pc, req, my_loan,
                   result, sweep>>

\* return_loan on a loan that is not active: ValueError before any write
\* (the patron route answers 404 for such a loan, the admin route flashes
\* the error).
return_loan_reject(l) ==
    /\ l \in DOMAIN loans
    /\ ~loans[l].is_active
    /\ flashed' = [op |-> "return", loan |-> l, error |-> "not_active"]
    /\ UNCHANGED <<scheduler_state, health_response, outbox, instance_of, now, users, books,
                   max_loans, loans, waitlist, checkout_lock, db_lock, pc, req, my_loan,
                   result, sweep>>

\* return_loan on an active loan: mark returned, commit, then
\* process_waitlist(loan.book).
return_loan(l, ok) ==
    /\ db_lock = NoThread
    /\ l \in DOMAIN loans
    /\ loans[l].is_active
    /\ LET b == loans[l].book
           lns == [loans EXCEPT ![l].is_active = FALSE, ![l].returned_at = now]
       IN /\ loans' = lns
          /\ waitlist' = process_waitlist(waitlist, b,
                             notifications_sent(books, lns, waitlist, b), now)
          /\ outbox' = Post(outbox, ok, books, lns, waitlist, b)
    /\ \A p \in DOMAIN outbox : outbox'[p] <= MaxMail
    /\ flashed' = NoFlash
    /\ UNCHANGED <<scheduler_state, health_response, instance_of, now, users, books,
                   max_loans, checkout_lock, db_lock, pc, req, my_loan, result, sweep>>

\* loan_invalidate (admin route): no check of loan.is_active is made.
loan_invalidate(l, ok) ==
    /\ db_lock = NoThread
    /\ l \in DOMAIN loans
    /\ LET b == loans[l].book
           lns == [loans EXCEPT ![l].invalidated = TRUE,
                                ![l].is_active = FALSE,
                                ![l].returned_at = now]
       IN /\ loans' = lns
          /\ waitlist' = process_waitlist(waitlist, b,
                             notifications_sent(books, lns, waitlist, b), now)
          /\ outbox' = Post(outbox, ok, books, lns, waitlist, b)
    /\ \A p \in DOMAIN outbox : outbox'[p] <= MaxMail
    /\ flashed' = NoFlash
    /\ UNCHANGED <<scheduler_state, health_response, instance_of, now, users, books,
                   max_loans, checkout_lock, db_lock, pc, req, my_loan, result, sweep>>

\* ------------------------------------------------------------ renew_loan

\* Loan.is_expired
is_expired(lns, l, t) == t >= lns[l].due_at

\* Mutant: the renewal counter is not compared with max_renewals.
RenewError_NoCapCheck(lns, l, t) ==
    IF ~lns[l].is_active THEN "not_active"
    ELSE IF lns[l].invalidated THEN "invalidated"
    ELSE IF is_expired(lns, l, t) THEN "expired"
    ELSE "ok"

\* Mutant: a loan past its due date can still be renewed.
RenewError_NoExpiryCheck(lns, l, t) ==
    IF ~lns[l].is_active THEN "not_active"
    ELSE IF lns[l].invalidated THEN "invalidated"
    ELSE IF lns[l].renewal_count >= lns[l].max_renewals THEN "max_renewals"
    ELSE "ok"

\* The checks of renew_loan, in the order the code makes them.
RenewError(lns, l, t) ==
    IF ~lns[l].is_active THEN "not_active"
    ELSE IF lns[l].invalidated THEN "invalidated"
    ELSE IF is_expired(lns, l, t) THEN "expired"
    ELSE IF lns[l].renewal_count >= lns[l].max_renewals THEN "max_renewals"
    ELSE "ok"

\* renew_loan raises ValueError: nothing is written, the route flashes it
\* (for a loan that is not active the patron route already answers 404).
renew_loan_reject(l) ==
    /\ l \in DOMAIN loans
    /\ RenewError(loans, l, now) # "ok"
    /\ flashed' = [op |-> "renew", loan |-> l, error |-> RenewError(loans, l, now)]
    /\ UNCHANGED <<scheduler_state, health_response, outbox, instance_of, now, users, books,
                   max_loans, loans, waitlist, checkout_lock, db_lock, pc, req, my_loan,
                   result, sweep>>

\* Mutant: the new due date is counted from the current time.
renew_loan_from_now(l) ==
    /\ db_lock = NoThread
    /\ l \in DOMAIN loans
    /\ RenewError(loans, l, now) = "ok"
    /\ loans' = [loans EXCEPT ![l].due_at = now + books[loans[l].book].loan_days,
                              ![l].renewal_count = @ + 1,
                              ![l].reminder_sent = FALSE]
    /\ flashed' = NoFlash
    /\ UNCHANGED <<scheduler_state, health_response, outbox, instance_of, now, users, books,
                   max_loans, waitlist, checkout_lock, db_lock, pc, req, my_loan, result,
                   sweep>>

\* renew_loan succeeds: due_at is extended by book.loan_days from the current
\* due date, renewal_count += 1, reminder_sent = False, commit.
renew_loan(l) ==
    /\ db_lock = NoThread
    /\ l \in DOMAIN loans
    /\ RenewError(loans, l, now) = "ok"
    /\ loans' = [loans EXCEPT ![l].due_at = @ + books[loans[l].book].loan_days,
                              ![l].renewal_count = @ + 1,
                              ![l].reminder_sent = FALSE]
    /\ flashed' = NoFlash
    /\ UNCHANGED <<scheduler_state, health_response, outbox, instance_of, now, users, books,
                   max_loans, waitlist, checkout_lock, db_lock, pc, req, my_loan, result,
                   sweep>>

\* --------------------------------------------------------- join_waitlist

NewEntry(u, b) ==
    [user |-> u, book |-> b, notified_at |-> NULL, is_fulfilled |-> FALSE]

\* db.session.delete(fulfilled): the fulfilled entry of (u, b), if any, is
\* marked for deletion in the session that adds the new one.
DropFulfilled(wl, u, b) ==
    SelectSeq(wl, LAMBDA e : ~(e.user = u /\ e.book = b /\ e.is_fulfilled))

\* uq_waitlist_user_book: a row of (u, b), fulfilled or not, is in the table.
HasEntry(wl, u, b) ==
    \E i \in 1..Len(wl) : wl[i].user = u /\ wl[i].book = b

\* The checks of the route before it writes (lines 215-246).
JoinAllowed(u, b) ==
    /\ books[b].is_visible /\ ~books[b].is_disabled
    /\ ~books[b].restricted_access
    /\ ~is_available(books, loans, b)
    /\ books[b].has_master
    /\ can_borrow(users, u)
    /\ ~\E i \in 1..Len(waitlist) :
          waitlist[i].user = u /\ waitlist[i].book = b /\ ~waitlist[i].is_fulfilled
    /\ ~\E l \in DOMAIN loans :
          loans[l].user = u /\ loans[l].book = b /\ loans[l].is_active

\* db.session.commit() of the route: the session holds the new row and, when
\* a fulfilled row was found, its deletion.  The flush emits the INSERT
\* before the DELETE, so the unique constraint on (user_id, book_id) fails
\* whenever a row of (u, b) is in the table: IntegrityError, rollback, "You
\* are already on the waitlist".  Otherwise the new row is stored with the
\* latest created_at.
JoinCommit(wl, u, b) ==
    IF HasEntry(wl, u, b) THEN wl
    ELSE Append(DropFulfilled(wl, u, b), NewEntry(u, b))

\* A join request that no other request interleaves with and that adds the
\* entry.
join_waitlist(u, b) ==
    /\ db_lock = NoThread
    /\ JoinAllowed(u, b)
    /\ Len(waitlist) < MaxWaitlist
    /\ waitlist' = JoinCommit(waitlist, u, b)
    /\ waitlist' # waitlist
    /\ UNCHANGED <<scheduler_state, health_response, outbox, flashed, instance_of, now,
                   users, books, max_loans, loans, checkout_lock, db_lock, pc, req, my_loan,
                   result, sweep>>

\* The same request as two steps of worker thread t: the reads of the route,
\* which take no lock, and later its commit.
join_waitlist_check(t, u, b) ==
    /\ pc[t] = "idle"
    /\ JoinAllowed(u, b)
    /\ Len(waitlist) < MaxWaitlist
    /\ pc' = [pc EXCEPT ![t] = "join"]
    /\ req' = [req EXCEPT ![t] = <<u, b>>]
    /\ UNCHANGED <<scheduler_state, health_response, outbox, flashed, instance_of, now,
                   users, books, max_loans, loans, waitlist, checkout_lock, db_lock,
                   my_loan, result, sweep>>

join_waitlist_commit(t) ==
    /\ pc[t] = "join"
    /\ db_lock = NoThread
    /\ waitlist' = JoinCommit(waitlist, req[t][1], req[t][2])
    /\ result' = [result EXCEPT ![t] =
                     IF waitlist' = waitlist THEN "already_waiting" ELSE "joined"]
    /\ pc' = [pc EXCEPT ![t] = "done"]
    /\ req' = [req EXCEPT ![t] = <<>>]
    /\ UNCHANGED <<scheduler_state, health_response, outbox, flashed, instance_of, now,
                   users, books, max_loans, loans, checkout_lock, db_lock, my_loan, sweep>>

\* ---------------------------------------------------------- expire_loans

\* failed_count is the local counter of expire_loans.
SweepIdle == [running |-> FALSE, overdue |-> <<>>, now |-> NULL, failed_count |-> 0]

\* now = _utcnow(); overdue = active loans with due_at <= now.
Overdue(lns, t) ==
    SeqOfSet({l \in DOMAIN lns : lns[l].is_active /\ lns[l].due_at <= t})

\* The rest of the run after one iteration: the loop goes on with the tail of
\* `overdue`, and expire_loans returns when it is empty.
SweepAfter(sw) ==
    IF Tail(sw.overdue) = <<>> THEN SweepIdle
    ELSE [sw EXCEPT !.overdue = Tail(sw.overdue)]

\* A run that finds overdue loans.
expire_loans_start ==
    /\ ~sweep.running
    /\ Overdue(loans, now) # <<>>
    /\ sweep' = [running |-> TRUE, overdue |-> Overdue(loans, now), now |-> now,
                 failed_count |-> 0]
    /\ UNCHANGED <<scheduler_state, health_response, outbox, flashed, instance_of, now,
                   users, books, max_loans, loans, waitlist, checkout_lock, db_lock, pc,
                   req, my_loan, result>>

\* The tentative rows of one iteration: the loan object loaded at the start
\* of the sweep is written as expired whatever the row holds by now, and
\* expiration_notice_sent is set when the notice send is truthy.
ExpireRow(lns, l, t) ==
    [lns EXCEPT ![l].is_active = FALSE,
                ![l].returned_at = t,
                ![l].expiration_notice_sent =
                    @ \/ Truthy(send_expiration_email(l))]

\* One iteration whose nested transaction commits, process_waitlist(book,
\* commit=False) included.
expire_loans_try(ok) ==
    /\ sweep.running /\ sweep.overdue # <<>>
    /\ db_lock = NoThread
    /\ LET l == Head(sweep.overdue) IN
       /\ l \in DOMAIN loans
       /\ LET b == loans[l].book
              lns == ExpireRow(loans, l, sweep.now)
          IN /\ loans' = lns
             /\ waitlist' = process_waitlist(waitlist, b,
                                notifications_sent(books, lns, waitlist, b), now)
             /\ outbox' = Post(outbox, ok, books, lns, waitlist, b)
    /\ \A p \in DOMAIN outbox : outbox'[p] <= MaxMail
    /\ sweep' = SweepAfter(sweep)
    /\ UNCHANGED <<health_response, flashed, instance_of, now, users, books, max_loans,
                   checkout_lock, db_lock, pc, req, my_loan, result>>

\* One iteration that raised RuntimeError, OSError, ValueError or
\* SQLAlchemyError: db.session.rollback(), failed_count += 1, and the loop
\* goes on with the next loan.  `late` says the error came after the waitlist
\* step (the commit failed): the messages of that step were delivered.
expire_loans_except(late) ==
    /\ sweep.running /\ sweep.overdue # <<>>
    /\ IF late /\ Head(sweep.overdue) \in DOMAIN loans
       THEN LET l == Head(sweep.overdue)
            IN outbox' = Post(outbox, TRUE, books, ExpireRow(loans, l, sweep.now),
                              waitlist, loans[l].book)
       ELSE outbox' = outbox
    /\ late => outbox' # outbox
    /\ \A p \in DOMAIN outbox : outbox'[p] <= MaxMail
    /\ sweep' = SweepAfter([sweep EXCEPT !.failed_count = @ + 1])
    /\ UNCHANGED <<health_response, flashed, instance_of, now, users, books, max_loans,
                   loans, waitlist, checkout_lock, db_lock, pc, req, my_loan, result>>

\* One iteration that raised any other exception: the `except` clause does
\* not match, begin_nested() rolls the savepoint back and the exception
\* leaves expire_loans.  The loans after this one are not processed in this
\* run.
expire_loans_raise ==
    /\ sweep.running /\ sweep.overdue # <<>>
    /\ sweep' = SweepIdle
    /\ UNCHANGED <<health_response, outbox, flashed, instance_of, now, users, books,
                   max_loans, loans, waitlist, checkout_lock, db_lock, pc, req, my_loan,
                   result>>

\* expire_loans() called outside _run_job (as the tests call it): the three
\* ways an iteration ends, with the scheduler's telemetry not involved.
expire_loans_commit(ok) == expire_loans_try(ok) /\ UNCHANGED scheduler_state

expire_loans_rollback(late) == expire_loans_except(late) /\ UNCHANGED scheduler_state

expire_loans_abort == expire_loans_raise /\ UNCHANGED scheduler_state

\* -------------------------------------------------------- send_reminders

\* email_service.send_reminder_email(loan, user, book): likewise None.
send_reminder_email(l) == "None"

\* upcoming = active loans due within REMINDER_DAYS_BEFORE_DUE, not yet due,
\* reminder_sent false.
Upcoming(lns, t) ==
    {l \in DOMAIN lns :
        /\ lns[l].is_active
        /\ lns[l].due_at <= t + REMINDER_DAYS_BEFORE_DUE
        /\ lns[l].due_at > t
        /\ ~lns[l].reminder_sent}

\* The loop over `upcoming`: reminder_sent is set when the send is truthy.
RemindRows(lns, t) ==
    [l \in DOMAIN lns |->
        IF l \in Upcoming(lns, t) /\ Truthy(send_reminder_email(l))
        THEN [lns[l] EXCEPT !.reminder_sent = TRUE]
        ELSE lns[l]]

\* send_reminders() returns: every upcoming loan was tried (a RuntimeError,
\* OSError or ValueError of one send is logged and the loop goes on), then
\* one commit.
send_reminders_try ==
    /\ loans' = RemindRows(loans, now)
    /\ loans' # loans => db_lock = NoThread
    /\ UNCHANGED <<health_response, outbox, flashed, instance_of, now, users, books,
                   max_loans, waitlist, checkout_lock, db_lock, pc, req, my_loan, result,
                   sweep>>

\* send_reminders() raises: a send raised an exception outside the caught
\* tuple; the commit is not reached.
send_reminders_raise ==
    /\ Upcoming(loans, now) # {}
    /\ UNCHANGED <<health_response, outbox, flashed, instance_of, now, users, books,
                   max_loans, loans, waitlist, checkout_lock, db_lock, pc, req, my_loan,
                   result, sweep>>

\* ------------------------------------------------------------- scheduler

Jobs == {"expire_loans", "send_reminders"}

\* jobs.setdefault(job_id, {"consecutive_failures": 0}) before the first run.
NoEntry == [last_status |-> "none", last_error |-> "None", consecutive_failures |-> 0]

\* Mutant: a successful run leaves the failure counter as it is.
record_job_result_no_reset(st, job, status) ==
    [st EXCEPT ![job] =
        IF status = "ok"
        THEN [last_status |-> "ok", last_error |-> "None",
              consecutive_failures |-> st[job].consecutive_failures]
        ELSE [last_status |-> status, last_error |-> "Unhandled exception",
              consecutive_failures |-> st[job].consecutive_failures + 1]]

\* _record_job_result(job_id, status=..., error="Unhandled exception" | None)
record_job_result(st, job, status) ==
    [st EXCEPT ![job] =
        IF status = "ok"
        THEN [last_status |-> "ok", last_error |-> "None", consecutive_failures |-> 0]
        ELSE [last_status |-> status, last_error |-> "Unhandled exception",
              consecutive_failures |-> st[job].consecutive_failures + 1]]

\* _run_job("expire_loans", expire_loans): the telemetry is recorded when
\* expire_loans has returned ("ok") or raised ("error"); an iteration after
\* which the loop goes on records nothing.
run_expiry_commit(ok) ==
    /\ expire_loans_try(ok)
    /\ scheduler_state' = IF sweep'.running THEN scheduler_state
                          ELSE record_job_result(scheduler_state, "expire_loans", "ok")

run_expiry_rollback(late) ==
    /\ expire_loans_except(late)
    /\ scheduler_state' = IF sweep'.running THEN scheduler_state
                          ELSE record_job_result(scheduler_state, "expire_loans", "ok")

run_expiry_abort ==
    /\ scheduler_state["expire_loans"].consecutive_failures < MaxFailures
    /\ expire_loans_raise
    /\ scheduler_state' = record_job_result(scheduler_state, "expire_loans", "error")

\* A run of the job that finds no overdue loan.
run_expiry_idle ==
    /\ ~sweep.running
    /\ Overdue(loans, now) = <<>>
    /\ scheduler_state' = record_job_result(scheduler_state, "expire_loans", "ok")
    /\ UNCHANGED <<health_response, outbox, flashed, instance_of, now, users, books,
                   max_loans, loans, waitlist, checkout_lock, db_lock, pc, req, my_loan,
                   result, sweep>>

\* _run_job("send_reminders", send_reminders)
run_reminders ==
    /\ send_reminders_try
    /\ scheduler_state' = record_job_result(scheduler_state, "send_reminders", "ok")

run_reminders_crash ==
    /\ scheduler_state["send_reminders"].consecutive_failures < MaxFailures
    /\ send_reminders_raise
    /\ scheduler_state' = record_job_result(scheduler_state, "send_reminders", "error")

\* ---------------------------------------------------------------- health

NoResponse == [status |-> "none", code |-> 0]

\* GET /health.  sched: app.scheduler is None ("disabled"), or its `running`
\* attribute ("running" / "stopped"); db_ok: SELECT 1 succeeded.  The
\* response carries the scheduler's running flag and job list, the database
\* status, the overall status and the HTTP code.
HealthReport(sched, db_ok) ==
    LET scheduler_ok == sched = "disabled" \/ sched = "running"
        all_ok == scheduler_ok /\ db_ok
    IN [status |-> IF all_ok THEN "ok" ELSE "degraded",
        code |-> IF all_ok THEN 200 ELSE 503,
        scheduler |-> [running |-> sched = "running"],
        database |-> IF db_ok THEN "ok" ELSE "error"]

health(sched, db_ok) ==
    /\ health_response' = HealthReport(sched, db_ok)
    /\ UNCHANGED <<scheduler_state, outbox, flashed, instance_of, now, users, books,
                   max_loans, loans, waitlist, checkout_lock, db_lock, pc, req, my_loan,
                   result, sweep>>

\* init_scheduler: no job has run; no health probe has been answered.
SchedulerStarted ==
    /\ scheduler_state = [j \in Jobs |-> NoEntry]
    /\ health_response = NoResponse

\* ----------------------------------------------------------------- clock

Tick ==
    /\ now < MaxTime
    /\ now' = now + 1
    /\ UNCHANGED <<scheduler_state, health_response, outbox, flashed, instance_of, users,
                   books, max_loans, loans, waitlist, checkout_lock, db_lock, pc, req,
                   my_loan, result, sweep>>

\* ------------------------------------------------------------------ Spec

\* Users: u1 and u2 are patrons in good standing, u3 is a blocked patron.
UserTable ==
    [u \in Users |-> IF u = "u3" THEN UserRow(TRUE, TRUE, "patron") ELSE Patron]

\* Catalog: b1 is lendable with two copies, b2 is lendable with one.
Catalog ==
    [b \in Books |-> IF b = "b1" THEN LendableBook(2) ELSE LendableBook(1)]

\* Two request workers in two server processes on one database.
SpecThreads == {"t1", "t2"}

TwoInstances == [t \in Threads |-> IF t = "t2" THEN "i2" ELSE "i1"]

ThreadsIdle ==
    /\ checkout_lock = [i \in Instances |-> NoThread]
    /\ db_lock = NoThread
    /\ pc = [t \in Threads |-> "idle"]
    /\ req = [t \in Threads |-> <<>>]
    /\ my_loan = [t \in Threads |-> NULL]
    /\ result = [t \in Threads |-> "none"]

EmptyLibrary ==
    /\ now = 1
    /\ loans = <<>>
    /\ waitlist = <<>>
    /\ ThreadsIdle
    /\ sweep = SweepIdle
    /\ outbox = [p \in (DOMAIN users) \X Books |-> 0]
    /\ flashed = NoFlash

Init ==
    /\ instance_of = TwoInstances
    /\ users = UserTable
    /\ books = Catalog
    /\ max_loans \in 1..MaxLoansCap
    /\ EmptyLibrary
    /\ SchedulerStarted

CheckoutStep(t) ==
    \/ checkout_book_enter(t)
    \/ begin_checkout_transaction(t)
    \/ begin_checkout_busy(t)
    \/ \E u \in Users, b \in Books : checkout_book_reject(t, u, b)
    \/ \E u \in Users, b \in Books : checkout_book_insert(t, u, b)
    \/ checkout_book_generated(t)
    \/ checkout_book_generate_failed(t)
    \/ checkout_book_finish(t)
    \/ borrow_done(t)

Next ==
    \/ \E t \in SpecThreads : CheckoutStep(t)
    \/ \E l \in 1..MaxLoanRows, ok \in BOOLEAN : return_loan(l, ok)
    \/ \E l \in 1..MaxLoanRows, ok \in BOOLEAN : loan_invalidate(l, ok)
    \/ expire_loans_start
    \/ \E ok \in BOOLEAN : expire_loans_commit(ok)
    \/ \E late \in BOOLEAN : expire_loans_rollback(late)
    \/ expire_loans_abort
    \/ Tick

Spec == Init /\ [][Next]_vars

\* -------------------------------------------------------------- SpecRace
\* N threads of one server instance, each checking out b1 once for its own
\* patron, artifact generation always succeeding, C < N copies.

RacePatron(t) == IF t = "t1" THEN "u1" ELSE IF t = "t2" THEN "u2" ELSE "u3"

InitRace ==
    /\ instance_of = [t \in Threads |-> "i1"]
    /\ users = [u \in Users |-> Patron]
    /\ books \in {[b \in Books |-> LendableBook(c)] :
                    c \in 1..(Cardinality(Threads) - 1)}
    /\ max_loans \in 1..MaxLoansCap
    /\ EmptyLibrary
    /\ SchedulerStarted

NextRace ==
    \E t \in Threads :
        \/ checkout_book_enter(t)
        \/ begin_checkout_transaction(t)
        \/ checkout_book_reject(t, RacePatron(t), "b1")
        \/ checkout_book_insert(t, RacePatron(t), "b1")
        \/ checkout_book_generated(t)
        \/ checkout_book_finish(t)

SpecRace == InitRace /\ [][NextRace]_vars

\* ------------------------------------------------------------ SpecPolicy
\* One worker, every kind of policy rejection, with waitlist entries present.

PolicyCatalogs ==
    {[b \in Books |-> IF b = "b1" THEN LendableBook(1) ELSE row] :
        row \in {LendableBook(2),
                 BookRow(1, TRUE, FALSE, TRUE, TRUE),
                 BookRow(1, FALSE, FALSE, FALSE, TRUE),
                 BookRow(1, TRUE, TRUE, FALSE, TRUE),
                 BookRow(1, TRUE, FALSE, FALSE, FALSE)}}

InitPolicy ==
    /\ instance_of = [t \in Threads |-> "i1"]
    /\ users = UserTable
    /\ books \in PolicyCatalogs
    /\ max_loans \in 1..MaxLoansCap
    /\ EmptyLibrary
    /\ SchedulerStarted

NextPolicy ==
    \/ checkout_book_enter("t1")
    \/ begin_checkout_transaction("t1")
    \/ \E u \in Users, b \in Books : checkout_book_reject("t1", u, b)
    \/ \E u \in Users, b \in Books : checkout_book_insert("t1", u, b)
    \/ checkout_book_generated("t1")
    \/ checkout_book_generate_failed("t1")
    \/ checkout_book_finish("t1")
    \/ borrow_done("t1")
    \/ \E l \in 1..MaxLoanRows, ok \in BOOLEAN : return_loan(l, ok)
    \/ \E u \in Users, b \in Books : join_waitlist(u, b)

SpecPolicy == InitPolicy /\ [][NextPolicy]_vars

\* ------------------------------------------------------------- SpecRenew
\* One worker checking out for patron u1, who renews and returns, the admin
\* invalidating, the expiry sweep and the clock.

InitRenew ==
    /\ instance_of = [t \in Threads |-> "i1"]
    /\ users = UserTable
    /\ books = Catalog
    /\ max_loans = MaxLoansCap
    /\ EmptyLibrary
    /\ SchedulerStarted

NextRenew ==
    \/ checkout_book_enter("t1")
    \/ begin_checkout_transaction("t1")
    \/ \E b \in Books : checkout_book_reject("t1", "u1", b)
    \/ \E b \in Books : checkout_book_insert("t1", "u1", b)
    \/ checkout_book_generated("t1")
    \/ checkout_book_generate_failed("t1")
    \/ checkout_book_finish("t1")
    \/ borrow_done("t1")
    \/ \E l \in 1..MaxLoanRows : renew_loan(l)
    \/ \E l \in 1..MaxLoanRows : renew_loan_reject(l)
    \/ \E l \in 1..MaxLoanRows, ok \in BOOLEAN : return_loan(l, ok)
    \/ \E l \in 1..MaxLoanRows : return_loan_reject(l)
    \/ \E l \in 1..MaxLoanRows, ok \in BOOLEAN : loan_invalidate(l, ok)
    \/ expire_loans_start
    \/ \E ok \in BOOLEAN : expire_loans_commit(ok)
    \/ \E late \in BOOLEAN : expire_loans_rollback(late)
    \/ expire_loans_abort
    \/ Tick

SpecRenew == InitRenew /\ [][NextRenew]_vars

\* ------------------------------------------------------------- SpecSweep
\* Patron u1 borrows and returns while the scheduler runs expire_loans
\* again and again.

InitSweep ==
    /\ instance_of = [t \in Threads |-> "i1"]
    /\ users = UserTable
    /\ books = Catalog
    /\ max_loans = MaxLoansCap
    /\ EmptyLibrary
    /\ SchedulerStarted

NextSweep ==
    \/ checkout_book_enter("t1")
    \/ begin_checkout_transaction("t1")
    \/ \E b \in Books : checkout_book_reject("t1", "u1", b)
    \/ \E b \in Books : checkout_book_insert("t1", "u1", b)
    \/ checkout_book_generated("t1")
    \/ checkout_book_finish("t1")
    \/ borrow_done("t1")
    \/ \E l \in 1..MaxLoanRows, ok \in BOOLEAN : return_loan(l, ok)
    \/ expire_loans_start
    \/ \E ok \in BOOLEAN : expire_loans_commit(ok)
    \/ \E late \in BOOLEAN : expire_loans_rollback(late)
    \/ expire_loans_abort
    \/ Tick

SpecSweep == InitSweep /\ [][NextSweep]_vars

\* The iteration of the sweep for loan l raises.
expire_loans_fail_of(l) ==
    /\ sweep.overdue # <<>>
    /\ Head(sweep.overdue) = l
    /\ \/ \E late \in BOOLEAN : expire_loans_rollback(late)
       \/ expire_loans_abort

\* The scheduler runs expire_loans on every interval, and every iteration of
\* a run comes to an end.
SpecSweepFair ==
    /\ SpecSweep
    /\ WF_vars(expire_loans_start)
    /\ WF_vars((\E ok \in BOOLEAN : expire_loans_commit(ok))
                \/ (\E late \in BOOLEAN : expire_loans_rollback(late))
                \/ expire_loans_abort)

\* --------------------------------------------------------- SpecScheduler
\* The scheduler runs the expire_loans and send_reminders jobs while patron
\* u1 borrows and returns and patron u2 waits for the one-copy title.

InitScheduler ==
    /\ instance_of = [t \in Threads |-> "i1"]
    /\ users = UserTable
    /\ books = Catalog
    /\ max_loans = MaxLoansCap
    /\ EmptyLibrary
    /\ SchedulerStarted

NextScheduler ==
    \/ checkout_book_enter("t1")
    \/ begin_checkout_transaction("t1")
    \/ \E b \in Books : checkout_book_reject("t1", "u1", b)
    \/ \E b \in Books : checkout_book_insert("t1", "u1", b)
    \/ checkout_book_generated("t1")
    \/ checkout_book_finish("t1")
    \/ borrow_done("t1")
    \/ join_waitlist("u2", "b2")
    \/ \E l \in 1..MaxLoanRows, ok \in BOOLEAN : return_loan(l, ok)
    \/ expire_loans_start
    \/ \E ok \in BOOLEAN : run_expiry_commit(ok)
    \/ \E late \in BOOLEAN : run_expiry_rollback(late)
    \/ run_expiry_abort
    \/ run_expiry_idle
    \/ run_reminders
    \/ run_reminders_crash
    \/ Tick

SpecScheduler == InitScheduler /\ [][NextScheduler]_vars

\* ------------------------------------------------------------ SpecHealth
\* The two jobs run over the loans of patron u1 and /health is probed, with
\* the scheduler thread alive or stopped and the database reachable or not.

NextHealth ==
    \/ checkout_book_enter("t1")
    \/ begin_checkout_transaction("t1")
    \/ \E b \in Books : checkout_book_reject("t1", "u1", b)
    \/ \E b \in Books : checkout_book_insert("t1", "u1", b)
    \/ checkout_book_generated("t1")
    \/ checkout_book_finish("t1")
    \/ borrow_done("t1")
    \/ expire_loans_start
    \/ \E ok \in BOOLEAN : run_expiry_commit(ok)
    \/ \E late \in BOOLEAN : run_expiry_rollback(late)
    \/ run_expiry_abort
    \/ run_expiry_idle
    \/ run_reminders
    \/ run_reminders_crash
    \/ \E sched \in {"running", "stopped"}, db_ok \in BOOLEAN : health(sched, db_ok)
    \/ Tick

SpecHealth == InitScheduler /\ [][NextHealth]_vars

\* -------------------------------------------------------------- SpecJoin
\* One worker checks out the one-copy title for u1 or u2 while two other
\* workers serve join-waitlist requests of u1 for it; loans are returned.

JoinThreads == {"t2", "t3"}

\* The tables after u1 waited for b2 (which had no free copy then), borrowed
\* it, which fulfilled the entry, and returned it.
FormerWaiter ==
    /\ now = 1
    /\ loans = <<[NewLoan("u1", "b2", 1 + LoanDays) EXCEPT
                    !.is_active = FALSE, !.returned_at = 1,
                    !.circulation_filename = TRUE]>>
    /\ waitlist = <<[NewEntry("u1", "b2") EXCEPT !.is_fulfilled = TRUE]>>
    /\ ThreadsIdle
    /\ sweep = SweepIdle
    /\ outbox = [p \in (DOMAIN users) \X Books |-> 0]
    /\ flashed = NoFlash

InitJoin ==
    /\ instance_of = [t \in Threads |-> "i1"]
    /\ users = UserTable
    /\ books = Catalog
    /\ max_loans = MaxLoansCap
    /\ (EmptyLibrary \/ FormerWaiter)
    /\ SchedulerStarted

NextJoin ==
    \/ checkout_book_enter("t1")
    \/ begin_checkout_transaction("t1")
    \/ \E u \in {"u1", "u2"} : checkout_book_reject("t1", u, "b2")
    \/ \E u \in {"u1", "u2"} : checkout_book_insert("t1", u, "b2")
    \/ checkout_book_generated("t1")
    \/ checkout_book_finish("t1")
    \/ \E t \in Threads : borrow_done(t)
    \/ \E t \in JoinThreads : join_waitlist_check(t, "u1", "b2")
    \/ \E t \in JoinThreads : join_waitlist_commit(t)
    \/ \E l \in 1..MaxLoanRows, ok \in BOOLEAN : return_loan(l, ok)

SpecJoin == InitJoin /\ [][NextJoin]_vars

\* ---------------------------------------------------------- SpecWaitlist
\* Five patrons in good standing, one worker.  u1, u4 and u5 borrow; u1, u2
\* and u3 wait for the two-copy title b1 and u1 also for the one-copy title
\* b2; loans are returned (also a second time) and invalidated.

Members == Users \cup {"u4", "u5"}

Borrowers == {"u1", "u4", "u5"}

WaitPairs == (Users \X {"b1"}) \cup {<<"u1", "b2">>}

InitWaitlist ==
    /\ instance_of = [t \in Threads |-> "i1"]
    /\ users = [u \in Members |-> Patron]
    /\ books = Catalog
    /\ max_loans = MaxLoansCap
    /\ EmptyLibrary
    /\ SchedulerStarted

NextWaitlist ==
    \/ checkout_book_enter("t1")
    \/ begin_checkout_transaction("t1")
    \/ \E u \in Borrowers, b \in Books : checkout_book_reject("t1", u, b)
    \/ \E u \in Borrowers, b \in Books : checkout_book_insert("t1", u, b)
    \/ checkout_book_generated("t1")
    \/ checkout_book_finish("t1")
    \/ borrow_done("t1")
    \/ \E p \in WaitPairs : join_waitlist(p[1], p[2])
    \/ \E l \in 1..MaxLoanRows, ok \in BOOLEAN : return_loan(l, ok)
    \/ \E l \in 1..MaxLoanRows : return_loan_reject(l)
    \/ \E l \in 1..MaxLoanRows, ok \in BOOLEAN : loan_invalidate(l, ok)

SpecWaitlist == InitWaitlist /\ [][NextWaitlist]_vars

\* ================================================================ claims

ActiveOfBook(lns, b) == {l \in DOMAIN lns : lns[l].book = b /\ lns[l].is_active}
ActiveOfUser(lns, u) == {l \in DOMAIN lns : lns[l].user = u /\ lns[l].is_active}

C2_RollbackAtomic ==
    [][\A t \in Threads :
        /\ (pc[t] = "validate" /\ pc'[t] = "generate") =>
              /\ DOMAIN loans' = DOMAIN loans \cup {my_loan'[t]}
              /\ my_loan'[t] \notin DOMAIN loans
              /\ \A l \in DOMAIN loans : loans'[l] = loans[l]
        /\ (pc[t] = "generate" /\ pc'[t] # "generate" /\ pc'[t] # "fulfil") =>
              /\ pc'[t] = "done"
              /\ result'[t] \notin {"ok", "none"}
              /\ my_loan[t] \notin DOMAIN loans'
              /\ DOMAIN loans' = DOMAIN loans \ {my_loan[t]}
              /\ \A l \in DOMAIN loans' : loans'[l] = loans[l]
              /\ \A b \in Books :
                    /\ ActiveOfBook(loans', b) = ActiveOfBook(loans, b) \ {my_loan[t]}
                    /\ books'[b].owned_copies = books[b].owned_copies
      ]_vars

\* A checkout has returned the artifact error and the table is empty again.
C2_Witness ==
    \E t \in Threads :
        pc[t] = "done" /\ result[t] = "artifact_unavailable" /\ DOMAIN loans = {}

\* C3: in every committed state, every active Loan row has a circulation
\* artifact reference.
C3_NoPhantomLoan ==
    \A l \in DOMAIN loans : loans[l].is_active => loans[l].circulation_filename

\* C4: N distinct patrons race for C < N copies from N threads of one
\* instance: once all have returned, exactly C got a Loan and exactly C
\* active rows exist.
C4_RaceExactlyC ==
    (\A t \in Threads : pc[t] = "done") =>
        /\ Cardinality({t \in Threads : result[t] = "ok"}) = books["b1"].owned_copies
        /\ Cardinality(ActiveOfBook(loans, "b1")) = books["b1"].owned_copies

C4_Witness ==
    /\ \A t \in Threads : pc[t] = "done"
    /\ \E t \in Threads : result[t] = "ok"
    /\ \E t \in Threads : result[t] \notin {"ok", "none"}
    /\ books["b1"].owned_copies < Cardinality(Threads)

PolicyKinds ==
    {"not_available", "restricted", "ineligible", "cap", "duplicate", "no_copies"}

\* C5: a checkout rejected for a policy reason performs no writes: the Loan
\* rows and the WaitlistEntry rows are the same before and after.
C5_RejectNoWrites ==
    [][\A t \in Threads :
        (pc[t] = "validate" /\ pc'[t] = "done" /\ result'[t] \in PolicyKinds) =>
            (loans' = loans /\ waitlist' = waitlist)
      ]_vars

\* A restricted title was refused while loans and waitlist entries exist.
C5_Witness ==
    /\ \E t \in Threads : pc[t] = "done" /\ result[t] = "restricted"
    /\ loans # <<>>
    /\ waitlist # <<>>

\* C6: when BEGIN IMMEDIATE cannot be granted, checkout returns the busy
\* error, creates no Loan row and leaves the instance's mutex released.
C6_BusyReleases ==
    [][\A t \in Threads :
        (pc[t] = "begin" /\ db_lock # NoThread /\ pc'[t] # "begin") =>
            /\ pc'[t] = "done"
            /\ result'[t] = "busy"
            /\ loans' = loans
            /\ checkout_lock'[instance_of[t]] = NoThread
      ]_vars

\* A checkout has returned busy; its instance's mutex is free.
C6_Witness ==
    \E t \in Threads :
        /\ pc[t] = "done" /\ result[t] = "busy"
        /\ checkout_lock[instance_of[t]] = NoThread

\* The first violated precondition in the documented order.
DocumentedKind(usr, bks, lns, cap, u, b) ==
    IF ~(bks[b].is_visible /\ ~bks[b].is_disabled /\ ~bks[b].restricted_access)
    THEN "not_lendable"
    ELSE IF ~(usr[u].is_active_account /\ ~usr[u].is_blocked /\ usr[u].role = "patron")
    THEN "ineligible"
    ELSE IF Cardinality(ActiveOfUser(lns, u)) >= cap THEN "cap"
    ELSE IF \E l \in ActiveOfUser(lns, u) : lns[l].book = b THEN "duplicate"
    ELSE IF Cardinality(ActiveOfBook(lns, b)) >= bks[b].owned_copies THEN "no_copies"
    ELSE "ok"

KindOf(r) == IF r \in {"not_available", "restricted"} THEN "not_lendable" ELSE r

\* C7: the error kind a rejected checkout returns is that of the first
\* violated precondition in the order lendable, eligible, cap, duplicate,
\* copies.
C7_ErrorOrder ==
    [][\A t \in Threads, u \in Users, b \in Books :
        checkout_book_reject(t, u, b) =>
            KindOf(result'[t]) = DocumentedKind(users, books, loans, max_loans, u, b)
      ]_vars

\* C8: in every reachable state each patron has at most MAX_LOANS_PER_PATRON
\* active loans.
C8_PatronCap ==
    \A u \in Users : Cardinality(ActiveOfUser(loans, u)) <= max_loans

\* A patron holding exactly the cap was refused a further checkout.
C8_Witness ==
    /\ \E t \in Threads : pc[t] = "done" /\ result[t] = "cap"
    /\ \E u \in Users : Cardinality(ActiveOfUser(loans, u)) = max_loans

\* C9: in every reachable state there is at most one active Loan per
\* (patron, title).
C9_OneLoanPerPair ==
    \A u \in Users, b \in Books :
        Cardinality({l \in ActiveOfUser(loans, u) : loans[l].book = b}) <= 1

\* A patron's second request for a title that still has a free copy was
\* refused as a duplicate.
C9_Witness ==
    \E t \in Threads, b \in Books :
        /\ pc[t] = "done" /\ result[t] = "duplicate"
        /\ Cardinality(ActiveOfBook(loans, b)) = 1
        /\ books[b].owned_copies = 2

\* C10: once a loan is no longer active, no later operation on it changes
\* its is_active, invalidated or returned_at.
C10_TerminalAbsorbing ==
    [][\A l \in DOMAIN loans \cap DOMAIN loans' :
        ~loans[l].is_active =>
            /\ loans'[l].is_active = loans[l].is_active
            /\ loans'[l].invalidated = loans[l].invalidated
            /\ loans'[l].returned_at = loans[l].returned_at
      ]_vars

\* A Return request for loan l, accepted or not.
ReturnRequest(l) == return_loan_reject(l) \/ \E ok \in BOOLEAN : return_loan(l, ok)

\* C11: a Return of a loan that is not active is rejected with an error and
\* changes no loan row, no waitlist entry and sends no availability message,
\* so two consecutive Returns leave the state that one leaves.
C11_ReturnIdempotent ==
    [][\A l \in DOMAIN loans :
        (~loans[l].is_active /\ ReturnRequest(l)) =>
            /\ flashed' = [op |-> "return", loan |-> l, error |-> "not_active"]
            /\ loans' = loans
            /\ waitlist' = waitlist
            /\ outbox' = outbox
      ]_vars

\* A second Return of a returned loan was refused while a patron is waiting
\* for the title and a copy of it is free.
C11_Witness ==
    /\ flashed.op = "return"
    /\ ~loans[flashed.loan].is_active
    /\ ~loans[flashed.loan].invalidated
    /\ loans[flashed.loan].returned_at # NULL
    /\ PendingIdx(waitlist, loans[flashed.loan].book) # {}
    /\ available_copies(books, loans, loans[flashed.loan].book) > 0

\* A Renew request for loan l, accepted or not.
RenewRequest(l) == renew_loan(l) \/ renew_loan_reject(l)

\* C12: in every reachable state renewal_count <= max_renewals for every
\* loan, and a Renew of a loan that has used all its renewals is rejected and
\* leaves due_at and renewal_count as they are.
C12_RenewalCap ==
    /\ [](\A l \in DOMAIN loans : loans[l].renewal_count <= loans[l].max_renewals)
    /\ [][\A l \in DOMAIN loans :
            (loans[l].renewal_count >= loans[l].max_renewals /\ RenewRequest(l)) =>
                /\ flashed'.op = "renew" /\ flashed'.error # "none"
                /\ loans'[l].due_at = loans[l].due_at
                /\ loans'[l].renewal_count = loans[l].renewal_count
         ]_vars

\* The third Renew of a loan that is active and not yet due was refused.
C12_Witness ==
    /\ flashed.op = "renew" /\ flashed.error = "max_renewals"
    /\ loans[flashed.loan].renewal_count = MAX_RENEWALS
    /\ loans[flashed.loan].is_active
    /\ now < loans[flashed.loan].due_at

\* C13: a Renew of a loan that is not active, is invalidated, or is past due
\* (now >= due_at, swept or not) is rejected and leaves due_at, renewal_count
\* and reminder_sent as they are.
C13_RenewGuards ==
    [][\A l \in DOMAIN loans :
        ((~loans[l].is_active \/ loans[l].invalidated \/ now >= loans[l].due_at)
            /\ RenewRequest(l)) =>
            /\ flashed'.op = "renew" /\ flashed'.error # "none"
            /\ loans'[l].due_at = loans[l].due_at
            /\ loans'[l].renewal_count = loans[l].renewal_count
            /\ loans'[l].reminder_sent = loans[l].reminder_sent
      ]_vars

\* A Renew was refused for a loan that is past due and still active (the
\* sweep has not processed it).
C13_Witness ==
    /\ flashed.op = "renew" /\ flashed.error = "expired"
    /\ loans[flashed.loan].is_active
    /\ now >= loans[flashed.loan].due_at
    /\ loans[flashed.loan].renewal_count < loans[flashed.loan].max_renewals

\* C14: a step that renews a loan (its renewal_count changes) sets due_at to
\* the previous due_at plus the title's loan period, adds exactly 1 to
\* renewal_count, sets reminder_sent to false and changes nothing else.
C14_RenewEffect ==
    [][\A l \in DOMAIN loans \cap DOMAIN loans' :
        loans'[l].renewal_count # loans[l].renewal_count =>
            /\ loans'[l] = [loans[l] EXCEPT
                               !.due_at = @ + books[loans[l].book].loan_days,
                               !.renewal_count = @ + 1,
                               !.reminder_sent = FALSE]
            /\ loans'[l].is_active
            /\ \A m \in DOMAIN loans \ {l} : m \in DOMAIN loans' /\ loans'[m] = loans[m]
      ]_vars

\* A loan renewed twice at time 1: its due date is two periods beyond the
\* one set at checkout, which a count from the current time cannot give.
C14_Witness ==
    \E l \in DOMAIN loans :
        /\ loans[l].renewal_count = 2
        /\ loans[l].is_active
        /\ loans[l].due_at = now + 3 * books[loans[l].book].loan_days

OverdueActive(l) ==
    l \in DOMAIN loans /\ loans[l].is_active /\ loans[l].due_at <= now

\* C16: under repeated execution of the sweep, every active loan with
\* due_at <= now is eventually no longer active, provided the processing of
\* that loan eventually stops raising.
C16_ExpiryLiveness ==
    \A l \in 1..MaxLoanRows :
        <>[][~expire_loans_fail_of(l)]_vars =>
            [](OverdueActive(l) => <>(~OverdueActive(l)))

\* A request that ends with process_waitlist(b): a return or an invalidation
\* of a loan of title b; ok: the mail provider accepts the messages.
FulfilmentPass(b, ok) ==
    \E l \in DOMAIN loans :
        /\ loans[l].book = b
        /\ (return_loan(l, ok) \/ loan_invalidate(l, ok))

\* The entries of title b that are marked notified.
NotifiedIdx(wl, b) ==
    {i \in 1..Len(wl) : wl[i].book = b /\ wl[i].notified_at # NULL}

\* C17: within a title an unfulfilled entry is marked notified only if every
\* older unfulfilled entry of the title is, and with three entries waiting,
\* two copies free and the messages accepted, one fulfillment pass marks the
\* two oldest and not the third.
C17_WaitlistFifo ==
    /\ [](\A i, j \in 1..Len(waitlist) :
            (/\ i < j
             /\ waitlist[i].book = waitlist[j].book
             /\ ~waitlist[i].is_fulfilled /\ ~waitlist[j].is_fulfilled
             /\ waitlist[j].notified_at # NULL) => waitlist[i].notified_at # NULL)
    /\ [][\A b \in Books :
            (/\ FulfilmentPass(b, TRUE)
             /\ Len(PendingSeq(waitlist, b)) >= 3
             /\ available_copies(books, loans', b) = 2) =>
                /\ waitlist'[PendingSeq(waitlist, b)[1]].notified_at # NULL
                /\ waitlist'[PendingSeq(waitlist, b)[2]].notified_at # NULL
                /\ waitlist'[PendingSeq(waitlist, b)[3]].notified_at = NULL
         ]_vars

\* C18: when a fulfillment pass stops before its budget and the waiting
\* entries are used up, the entry it stopped at keeps notified_at null, no
\* younger entry is mailed or marked in that pass, and that entry is the
\* first one the next pass takes.
C18_FailureStopsPass ==
    [][\A b \in Books, ok \in BOOLEAN :
        FulfilmentPass(b, ok) =>
            LET q == PendingSeq(waitlist, b)
                k == Cardinality(NotifiedIdx(waitlist', b) \ NotifiedIdx(waitlist, b))
                n == WaitlistAttempts(books, loans', waitlist, b)
            IN k < n =>
                /\ waitlist'[q[k + 1]].notified_at = NULL
                /\ \A j \in (k + 2)..Len(q) :
                      /\ waitlist'[q[j]].notified_at = NULL
                      /\ outbox'[<<waitlist[q[j]].user, b>>]
                            = outbox[<<waitlist[q[j]].user, b>>]
                /\ Head(PendingSeq(waitlist', b)) = q[k + 1]
      ]_vars

\* Two patrons wait for a title with two free copies: the older one has been
\* mailed and is not marked, the younger one has not been mailed.
C18_Witness ==
    \E b \in Books :
        /\ Len(PendingSeq(waitlist, b)) >= 2
        /\ available_copies(books, loans, b) >= 2
        /\ outbox[<<waitlist[PendingSeq(waitlist, b)[1]].user, b>>] >= 1
        /\ outbox[<<waitlist[PendingSeq(waitlist, b)[2]].user, b>>] = 0

\* C19: one fulfillment pass marks, and mails, at most
\* max(0, owned_copies - active loans) entries, counted when the pass starts;
\* when that number is 0 it mails and marks nobody.
C19_NotificationCeiling ==
    [][\A b \in Books, ok \in BOOLEAN :
        FulfilmentPass(b, ok) =>
            /\ Cardinality(NotifiedIdx(waitlist', b) \ NotifiedIdx(waitlist, b))
                  <= available_copies(books, loans', b)
            /\ Cardinality({p \in DOMAIN outbox : outbox'[p] # outbox[p]})
                  <= available_copies(books, loans', b)
            /\ available_copies(books, loans', b) = 0 =>
                  (outbox' = outbox /\ waitlist' = waitlist)
      ]_vars

\* A pass ran for a title without a free copy (a returned loan of it was
\* invalidated while the only copy is lent again) with a patron waiting who
\* has not been mailed.
C19_Witness ==
    \E l \in DOMAIN loans :
        /\ loans[l].invalidated
        /\ available_copies(books, loans, loans[l].book) = 0
        /\ active_loan_count(loans, loans[l].book) = books[loans[l].book].owned_copies
        /\ \E i \in PendingIdx(waitlist, loans[l].book) :
              outbox[<<waitlist[i].user, loans[l].book>>] = 0

\* C20: for a title with one copy, a patron who was refused, joined the
\* waitlist and has never held the title has been sent at most one
\* availability message, and has been sent one exactly when the entry is
\* marked notified.
C20_NotifiedExactlyOnce ==
    \A i \in 1..Len(waitlist) :
        (/\ books[waitlist[i].book].owned_copies = 1
         /\ ~waitlist[i].is_fulfilled
         /\ ~\E l \in DOMAIN loans :
               loans[l].user = waitlist[i].user /\ loans[l].book = waitlist[i].book) =>
            /\ outbox[<<waitlist[i].user, waitlist[i].book>>] <= 1
            /\ (outbox[<<waitlist[i].user, waitlist[i].book>>] = 1
                  <=> waitlist[i].notified_at # NULL)

\* C21: reminder_sent, expiration_notice_sent and notified_at go from unset
\* to set only in a step in which the send for that loan or entry returned
\* true; a send that returned anything else leaves the flag as it was.
C21_FlagsOnlyOnTrue ==
    [][/\ \A l \in DOMAIN loans \cap DOMAIN loans' :
            /\ (~loans[l].reminder_sent /\ loans'[l].reminder_sent) =>
                  send_reminder_email(l) = "True"
            /\ (~loans[l].expiration_notice_sent /\ loans'[l].expiration_notice_sent) =>
                  send_expiration_email(l) = "True"
       /\ \A i \in 1..Len(waitlist), j \in 1..Len(waitlist') :
            (/\ waitlist'[j].user = waitlist[i].user
             /\ waitlist'[j].book = waitlist[i].book
             /\ waitlist[i].notified_at = NULL
             /\ waitlist'[j].notified_at # NULL) =>
                  send_waitlist_notification(waitlist[i].user, waitlist[i].book) = "True"
      ]_vars

\* The three sends have been made and did not return true: a reminder run
\* has ended with a loan in the reminder window still unmarked, a loan has
\* been expired by the sweep with its notice flag unset, and a waiting
\* patron has been mailed twice while the entry is unmarked.
C21_Witness ==
    /\ scheduler_state["send_reminders"].last_status = "ok"
    /\ Upcoming(loans, now) # {}
    /\ scheduler_state["expire_loans"].last_status = "ok"
    /\ \E l \in DOMAIN loans :
          /\ ~loans[l].is_active /\ loans[l].returned_at >= loans[l].due_at
          /\ ~loans[l].expiration_notice_sent
    /\ \E i \in 1..Len(waitlist) :
          /\ waitlist[i].notified_at = NULL
          /\ outbox[<<waitlist[i].user, waitlist[i].book>>] = 2

\* C22: a send accepted by the mail provider returns true, so the caller
\* sets the flag: a fulfillment pass whose message to a waiting patron was
\* accepted marks that patron's entry, and an expiry iteration whose notice
\* was accepted sets expiration_notice_sent.
C22_SendReportsDelivery ==
    [][/\ \A p \in DOMAIN outbox :
            (/\ \/ \E l \in DOMAIN loans : return_loan(l, TRUE)
                \/ run_expiry_commit(TRUE)
             /\ outbox'[p] > outbox[p]) =>
                \E i \in 1..Len(waitlist') :
                    /\ waitlist'[i].user = p[1] /\ waitlist'[i].book = p[2]
                    /\ waitlist'[i].notified_at # NULL
       /\ run_expiry_commit(TRUE) =>
            loans'[Head(sweep.overdue)].expiration_notice_sent
      ]_vars

\* C23: a notice whose delivery failed is tried again by the next pass: after
\* a reminder run every loan it tried and left unmarked is still selected by
\* the next reminder run (at the same time), after an expiry iteration whose
\* notice the provider refused the loan is still selected by the next sweep,
\* and after a fulfillment pass whose message was refused the entry it
\* stopped at is the first one the next pass takes.
C23_RetriedNextPass ==
    [][/\ run_reminders =>
            \A l \in Upcoming(loans, now) :
                ~loans'[l].reminder_sent => l \in Upcoming(loans', now')
       /\ run_expiry_commit(FALSE) =>
            LET l == Head(sweep.overdue)
            IN ~loans'[l].expiration_notice_sent =>
                  (loans'[l].is_active /\ loans'[l].due_at <= now')
       /\ \A b \in Books :
            (FulfilmentPass(b, FALSE) /\ PendingSeq(waitlist, b) # <<>>) =>
                /\ PendingSeq(waitlist', b) # <<>>
                /\ Head(PendingSeq(waitlist', b)) = Head(PendingSeq(waitlist, b))
      ]_vars

\* The unfulfilled entries of patron u for title b.
UnfulfilledIdx(wl, u, b) ==
    {i \in 1..Len(wl) : wl[i].user = u /\ wl[i].book = b /\ ~wl[i].is_fulfilled}

\* C24: in every reachable state there is at most one unfulfilled entry per
\* (title, patron), also when two joins of the same patron race; and a join
\* that commits while the route's checks hold (the patron has no unfulfilled
\* entry, a previous one being fulfilled included) stores a fresh entry with
\* notified_at null at the back of the queue.
C24_OneEntryPerPair ==
    /\ [](\A u \in DOMAIN users, b \in Books :
            Cardinality(UnfulfilledIdx(waitlist, u, b)) <= 1)
    /\ [][\A t \in Threads :
            (join_waitlist_commit(t) /\ JoinAllowed(req[t][1], req[t][2])) =>
                /\ waitlist' # <<>>
                /\ waitlist'[Len(waitlist')] = NewEntry(req[t][1], req[t][2])
                /\ Cardinality(UnfulfilledIdx(waitlist', req[t][1], req[t][2])) = 1
         ]_vars

\* C29: no patron holds an active loan and an unfulfilled waitlist entry for
\* the same title, under any interleaving of the patron's join-waitlist and
\* checkout requests (stated for the states in which no checkout of that
\* patron and title is between its insert and its waitlist step).
C29_NoLoanAndEntry ==
    \A u \in DOMAIN users, b \in Books :
        (\A t \in Threads : pc[t] \in {"generate", "fulfil"} => req[t] # <<u, b>>) =>
            ~(/\ \E l \in DOMAIN loans :
                    loans[l].user = u /\ loans[l].book = b /\ loans[l].is_active
              /\ UnfulfilledIdx(waitlist, u, b) # {})

\* A run of the expire_loans job ends by returning / by raising.
ExpiryRunReturns ==
    \/ run_expiry_idle
    \/ /\ ~sweep'.running
       /\ \/ \E ok \in BOOLEAN : run_expiry_commit(ok)
          \/ \E late \in BOOLEAN : run_expiry_rollback(late)

\* C25: after a run of a job that returned, the job's last_status is "ok" and
\* its consecutive_failures is 0; after a run that raised, last_status is
\* "error" and consecutive_failures is the previous value plus 1; the other
\* job's entry is untouched, and after a run that raised the job can be run
\* again.
C25_Telemetry ==
    [][/\ ExpiryRunReturns =>
            /\ scheduler_state'["expire_loans"].last_status = "ok"
            /\ scheduler_state'["expire_loans"].consecutive_failures = 0
            /\ scheduler_state'["send_reminders"] = scheduler_state["send_reminders"]
       /\ run_expiry_abort =>
            /\ scheduler_state'["expire_loans"].last_status = "error"
            /\ scheduler_state'["expire_loans"].consecutive_failures
                  = scheduler_state["expire_loans"].consecutive_failures + 1
            /\ scheduler_state'["send_reminders"] = scheduler_state["send_reminders"]
            /\ ~sweep'.running
       /\ run_reminders =>
            /\ scheduler_state'["send_reminders"].last_status = "ok"
            /\ scheduler_state'["send_reminders"].consecutive_failures = 0
            /\ scheduler_state'["expire_loans"] = scheduler_state["expire_loans"]
       /\ run_reminders_crash =>
            /\ scheduler_state'["send_reminders"].last_status = "error"
            /\ scheduler_state'["send_reminders"].consecutive_failures
                  = scheduler_state["send_reminders"].consecutive_failures + 1
            /\ scheduler_state'["expire_loans"] = scheduler_state["expire_loans"]
      ]_vars

\* The expiry job has failed twice in a row and a new run of it is under
\* way, while the reminder job's latest run succeeded after a failure-free
\* history.
C25_Witness ==
    /\ scheduler_state["expire_loans"].last_status = "error"
    /\ scheduler_state["expire_loans"].consecutive_failures = 2
    /\ sweep.running
    /\ scheduler_state["send_reminders"].last_status = "ok"
    /\ scheduler_state["send_reminders"].consecutive_failures = 0

\* The jobs a health response lists as failing.
FailingJobsOf(resp) ==
    IF "failing_jobs" \in DOMAIN resp.scheduler THEN resp.scheduler.failing_jobs ELSE {}

\* C26: with the scheduler running, the health response is "degraded" (503)
\* and lists a job as failing exactly when that job's consecutive_failures
\* is at least SCHEDULER_MAX_CONSECUTIVE_FAILURES; with the database
\* reachable too and every job below the threshold it is "ok" (200) and lists
\* no failing job.
C26_HealthThreshold ==
    [][\A db_ok \in BOOLEAN :
        health("running", db_ok) =>
            LET failing == {j \in Jobs : scheduler_state[j].consecutive_failures
                                            >= SCHEDULER_MAX_CONSECUTIVE_FAILURES}
            IN /\ FailingJobsOf(health_response') = failing
               /\ failing # {} =>
                    (health_response'.status = "degraded" /\ health_response'.code = 503)
               /\ (failing = {} /\ db_ok) =>
                    (health_response'.status = "ok" /\ health_response'.code = 200)
      ]_vars

\* C27: a run of the expiry sweep in which the processing of a loan failed
\* is not aborted, and the telemetry recorded for it differs from the
\* telemetry of a run in which every loan succeeded.
C27_FailuresSurface ==
    [][(/\ sweep.running /\ ~sweep'.running
        /\ \/ sweep.failed_count > 0
           \/ \E late \in BOOLEAN : run_expiry_rollback(late)
           \/ run_expiry_abort) =>
            /\ ~run_expiry_abort
            /\ scheduler_state'["expire_loans"]
                  # record_job_result(scheduler_state, "expire_loans", "ok")["expire_loans"]
      ]_vars

\* C28: a loan is deactivated by one operation only: returned_at, once
\* written, is never overwritten, and the iteration of the sweep for a loan
\* that is no longer active when its turn comes (it was returned or
\* invalidated since the sweep selected it) writes no loan row, marks no
\* waitlist entry and sends no availability message.
C28_DeactivatedOnce ==
    [][/\ \A l \in DOMAIN loans \cap DOMAIN loans' :
            loans[l].returned_at # NULL => loans'[l].returned_at = loans[l].returned_at
       /\ \A l \in DOMAIN loans :
            (/\ sweep.running /\ sweep.overdue # <<>> /\ Head(sweep.overdue) = l
             /\ sweep' # sweep
             /\ ~loans[l].is_active) =>
                (loans' = loans /\ waitlist' = waitlist /\ outbox' = outbox)
      ]_vars

\* C30: over its lifetime a waitlist entry is the target of at most one
\* delivered availability message (the table holds at most one entry per
\* patron and title, so the messages of a patron for a title are those of
\* that entry), also when the delivery happened in an expiry iteration that
\* was rolled back afterwards.
C30_OneDeliveryPerEntry ==
    \A p \in DOMAIN outbox : outbox[p] <= 1

====
